---- MODULE Spec2Model ----
(***************************************************************************)
(* A model of bayesquad/gps.py: the GP wrapper (class GP) with its         *)
(* last-value caches, and the WSABI-L warped GP (class WsabiLGP) with its  *)
(* adaptive offset alpha, its real history and its retractable fantasies.  *)
(*                                                                         *)
(* Numbers.  Raw targets are integers that are multiples of 5, so that     *)
(* 0.8 * y = (4 * y) \div 5 is exact.  A warped target w = sqrt(r) is      *)
(* represented by its radicand r = w^2 (sqrt is injective on r >= 0), and  *)
(* the result of sqrt on a negative radicand by NaN.                       *)
(***************************************************************************)
EXTENDS Integers, Sequences, FiniteSets

VARIABLES
    alpha,        \* WsabiLGP._alpha
    true_alpha,   \* WsabiLGP._true_alpha
    all_X,        \* WsabiLGP._all_X: list of x batches (real history)
    unwarped_Y,   \* WsabiLGP._unwarped_Y: list of raw y batches (real history)
    fantasy_X,    \* WsabiLGP._fantasy_X
    fantasy_Y,    \* WsabiLGP._fantasy_Y
    gp_X,         \* the underlying GPy model's X (one entry per point)
    gp_Y,         \* the underlying GPy model's Y (radicands of the stored targets)
    cache,        \* the three last-value cache slots of the GP instance
    outcome,      \* how the most recent call ended: "ok" or "ValueError"
    episode,      \* history variable: the state before the open fantasy episode
    hess_in,      \* the tensors posterior_hessians reads for the current query
    hess_out      \* the variance hessian posterior_hessians returned: {} or {V}

vars == <<alpha, true_alpha, all_X, unwarped_Y, fantasy_X, fantasy_Y,
          gp_X, gp_Y, cache, outcome, episode, hess_in, hess_out>>

wsabi_vars == <<alpha, true_alpha, all_X, unwarped_Y, fantasy_X, fantasy_Y>>

data_vars == <<alpha, true_alpha, all_X, unwarped_Y, fantasy_X, fantasy_Y, gp_X, gp_Y>>

hess_vars == <<hess_in, hess_out>>

-----------------------------------------------------------------------------
(* Bounds and input sets *)

\* The number of batches update and fantasise may add to the stored histories.
MaxBatches == 3

\* Raw target values (multiples of 5).
Targets == {0, 5, 10}

\* x arrays of one and of two points; a point is named by an integer.
XBatches == {<<1>>, <<2, 3>>}

\* y arrays of one and of two raw targets.
YBatches == {<<t>> : t \in Targets} \cup {<<10, 5>>, <<0, 10>>}

\* The well-formed (x, y) arguments the warped model is driven with.
Inputs == {b \in [x : XBatches, y : YBatches] : Len(b.x) = Len(b.y)}

\* The (x, y) arguments of the engine specification, ill-formed ones included.
EngineInputs == [x : XBatches, y : {<<0>>, <<10>>, <<10, 5>>}]

\* The number of training points the engine specification lets the model hold.
MaxPoints == 3

\* The query arrays of the cached posterior operations.
Queries == {<<1>>, <<2>>}

\* Entries of the kernel tensors range over 0 .. MaxEntry.
MaxEntry == 1

\* What sqrt returns outside its domain.
NaN == -1

None == "None"

-----------------------------------------------------------------------------
(* numpy and Python helpers *)

\* np.concatenate over a list of batches.
RECURSIVE Concat(_)
Concat(batches) ==
    IF batches = <<>> THEN <<>> ELSE Head(batches) \o Concat(Tail(batches))

\* 0.8 * y, exact on multiples of 5.
Times08(y) == (4 * y) \div 5

\* Python's min(*args): the index of the argument it returns.  The scan keeps
\* the first argument and replaces it only by a strictly smaller one.
RECURSIVE PyMinIndex(_, _, _)
PyMinIndex(args, best, i) ==
    IF i > Len(args) THEN best
    ELSE PyMinIndex(args, IF args[i] < args[best] THEN i ELSE best, i + 1)

PyMin(args) == args[PyMinIndex(args, 1, 2)]

\* gp.Y**2 / 2 for the stored targets of the model handed to __init__.
HalfSquare(Y) == [i \in DOMAIN Y |-> Y[i] \div 2]

\* WsabiLGP._warp: sqrt(2 * (y - alpha)), element by element.
_warp(y, a) == [i \in DOMAIN y |-> IF y[i] >= a THEN 2 * (y[i] - a) ELSE NaN]

WarpAll(batches, a) == [i \in DOMAIN batches |-> _warp(batches[i], a)]

\* min(self._alpha, *(0.8 * y)): the arguments, self._alpha first.
MinArgs(a, y) == <<a>> \o [i \in DOMAIN y |-> Times08(y[i])]

-----------------------------------------------------------------------------
(* The GP wrapper *)

Slots == {"mean_and_variance", "jacobians", "hessians"}

\* clear_last_value_caches(self): every slot of the instance is emptied.
clear_last_value_caches == [s \in Slots |-> {}]

\* A _clear_cache that empties the mean/variance slot only.
_clear_cache_first_slot == [cache EXCEPT !["mean_and_variance"] = {}]

\* GP._clear_cache, the observer GP.__init__ registers on the GPy model.
_clear_cache == clear_last_value_caches

\* GPy's set_XY: replaces the training data and notifies the observers.
set_XY(X, Y) ==
    /\ gp_X' = X
    /\ gp_Y' = Y
    /\ cache' = _clear_cache

\* _validate_and_transform_for_gpy_update: the point counts agree.
_validate(x, y) == Len(x) = Len(y)

\* GP.update after its validation: concatenate and set.
GP_update(x, y) == set_XY(gp_X \o x, gp_Y \o y)

\* @last_value_cache around a posterior operation: the slot's entry is returned
\* when it was stored for the same argument, and is computed and stored
\* otherwise.  A result is represented by the training data it was computed
\* against; a slot is the set of its entries, empty or a singleton.
last_value_cache(slot, q) ==
    IF \E e \in cache[slot] : e.key = q
    THEN cache' = cache
    ELSE cache' = [cache EXCEPT ![slot] = {[key |-> q, X |-> gp_X, Y |-> gp_Y]}]

-----------------------------------------------------------------------------
(* The history variable of a fantasy episode *)

Snapshot == [alpha |-> alpha, true_alpha |-> true_alpha, all_X |-> all_X,
             unwarped_Y |-> unwarped_Y, gp_X |-> gp_X, gp_Y |-> gp_Y]

NoEpisode == [status |-> "none", pre |-> None]

-----------------------------------------------------------------------------
(* WsabiLGP *)

InitialModels == {b \in [X : XBatches, Y : {<<2 * t>> : t \in Targets}
                                        \cup {<<20, 10>>, <<0, 20>>}] :
                    Len(b.X) = Len(b.Y)}

\* WsabiLGP.__init__(gp)
Init ==
    \E m \in InitialModels :
        /\ gp_X = m.X
        /\ gp_Y = m.Y
        /\ alpha = Times08(PyMin(HalfSquare(m.Y)))
        /\ true_alpha = alpha
        /\ unwarped_Y = <<HalfSquare(m.Y)>>
        /\ all_X = <<m.X>>
        /\ fantasy_X = <<>>
        /\ fantasy_Y = <<>>
        /\ cache = clear_last_value_caches
        /\ outcome = "ok"
        /\ episode = NoEpisode
        /\ hess_in = None
        /\ hess_out = {}

\* A reprocessing that lowers alpha and leaves true_alpha behind.
_update_alpha_only(a, X_hist, Y_hist) ==
    /\ alpha' = a
    /\ true_alpha' = true_alpha
    /\ set_XY(Concat(X_hist), Concat(WarpAll(Y_hist, a)))

\* WsabiLGP._update_alpha_and_reprocess_data, on the histories as appended to.
_update_alpha_and_reprocess_data(a, X_hist, Y_hist) ==
    /\ alpha' = a
    /\ true_alpha' = a
    /\ set_XY(Concat(X_hist), Concat(WarpAll(Y_hist, a)))

\* A comparison that also takes a candidate equal to alpha for a decrease.
alpha_ties_or_decreases(a, y) == \E i \in DOMAIN y : Times08(y[i]) <= a

\* `new_min is not self._alpha` for new_min = min(self._alpha, *(0.8 * y)):
\* min returns the object self._alpha unless a later argument is strictly smaller.
alpha_decreases(a, y) == PyMinIndex(MinArgs(a, y), 1, 2) # 1

\* WsabiLGP.update(x, y) past its validation.
update_accepted(x, y) ==
    /\ Len(all_X) + Len(fantasy_X) <= MaxBatches
    /\ all_X' = Append(all_X, x)
    /\ unwarped_Y' = Append(unwarped_Y, y)
    /\ IF alpha_decreases(alpha, y)
       THEN _update_alpha_and_reprocess_data(PyMin(MinArgs(alpha, y)),
                                             all_X', unwarped_Y')
       ELSE /\ GP_update(x, _warp(y, alpha))
            /\ UNCHANGED <<alpha, true_alpha>>
    /\ outcome' = "ok"
    /\ episode' = IF episode.status = "open"
                  THEN [status |-> "dirty", pre |-> None]
                  ELSE IF episode.status = "rolled" THEN NoEpisode
                  ELSE episode
    /\ UNCHANGED <<fantasy_X, fantasy_Y>>

\* An update that appends to the real history before it validates.
update_validates_late(x, y) ==
    IF ~_validate(x, y)
    THEN /\ all_X' = Append(all_X, x)
         /\ unwarped_Y' = Append(unwarped_Y, y)
         /\ outcome' = "ValueError"
         /\ UNCHANGED <<alpha, true_alpha, fantasy_X, fantasy_Y, gp_X, gp_Y,
                        cache, episode>>
    ELSE update_accepted(x, y)

\* WsabiLGP.update(x, y)
update(x, y) ==
    IF ~_validate(x, y)
    THEN /\ outcome' = "ValueError"
         /\ UNCHANGED <<data_vars, cache, episode>>
    ELSE update_accepted(x, y)

\* WsabiLGP._fantasise_alpha_and_reprocess_data, on the histories as appended to.
_fantasise_alpha_and_reprocess_data(a, FX_hist, FY_hist) ==
    /\ alpha' = a
    /\ set_XY(Concat(all_X \o FX_hist),
              Concat(WarpAll(unwarped_Y, a) \o WarpAll(FY_hist, a)))

\* A fantasise whose alpha-lowering branch lowers true_alpha as update's does.
fantasise_lowers_true_alpha(x, y) ==
    IF ~_validate(x, y)
    THEN /\ outcome' = "ValueError"
         /\ UNCHANGED <<data_vars, cache, episode>>
    ELSE /\ Len(all_X) + Len(fantasy_X) <= MaxBatches
         /\ fantasy_X' = Append(fantasy_X, x)
         /\ fantasy_Y' = Append(fantasy_Y, y)
         /\ IF alpha_decreases(alpha, y)
            THEN /\ _fantasise_alpha_and_reprocess_data(PyMin(MinArgs(alpha, y)),
                                                        fantasy_X', fantasy_Y')
                 /\ true_alpha' = alpha'
            ELSE /\ GP_update(x, _warp(y, alpha))
                 /\ UNCHANGED <<alpha, true_alpha>>
         /\ outcome' = "ok"
         /\ episode' = IF fantasy_X = <<>>
                       THEN [status |-> "open", pre |-> Snapshot]
                       ELSE episode
         /\ UNCHANGED <<all_X, unwarped_Y>>

\* WsabiLGP.fantasise(x, y)
fantasise(x, y) ==
    IF ~_validate(x, y)
    THEN /\ outcome' = "ValueError"
         /\ UNCHANGED <<data_vars, cache, episode>>
    ELSE /\ Len(all_X) + Len(fantasy_X) <= MaxBatches
         /\ fantasy_X' = Append(fantasy_X, x)
         /\ fantasy_Y' = Append(fantasy_Y, y)
         /\ IF alpha_decreases(alpha, y)
            THEN _fantasise_alpha_and_reprocess_data(PyMin(MinArgs(alpha, y)),
                                                     fantasy_X', fantasy_Y')
            ELSE /\ GP_update(x, _warp(y, alpha))
                 /\ UNCHANGED alpha
         /\ outcome' = "ok"
         /\ episode' = IF fantasy_X = <<>>
                       THEN [status |-> "open", pre |-> Snapshot]
                       ELSE episode
         /\ UNCHANGED <<true_alpha, all_X, unwarped_Y>>

\* A remove_fantasies that re-warps the real history without restoring alpha.
remove_fantasies_keeps_alpha ==
    /\ alpha' = alpha
    /\ set_XY(Concat(all_X), Concat(WarpAll(unwarped_Y, alpha)))
    /\ fantasy_X' = <<>>
    /\ fantasy_Y' = <<>>
    /\ outcome' = "ok"
    /\ episode' = IF episode.status = "open"
                  THEN [status |-> "rolled", pre |-> episode.pre]
                  ELSE NoEpisode
    /\ UNCHANGED <<true_alpha, all_X, unwarped_Y>>

\* WsabiLGP.remove_fantasies()
remove_fantasies ==
    /\ alpha' = true_alpha
    /\ set_XY(Concat(all_X), Concat(WarpAll(unwarped_Y, true_alpha)))
    /\ fantasy_X' = <<>>
    /\ fantasy_Y' = <<>>
    /\ outcome' = "ok"
    /\ episode' = IF episode.status = "open"
                  THEN [status |-> "rolled", pre |-> episode.pre]
                  ELSE NoEpisode
    /\ UNCHANGED <<true_alpha, all_X, unwarped_Y>>

Update == \E b \in Inputs : update(b.x, b.y) /\ UNCHANGED hess_vars

Fantasise == \E b \in Inputs : fantasise(b.x, b.y) /\ UNCHANGED hess_vars

RemoveFantasies == remove_fantasies /\ UNCHANGED hess_vars

Next == Update \/ Fantasise \/ RemoveFantasies

Spec == Init /\ [][Next]_vars

-----------------------------------------------------------------------------
(* Sequences of real updates only *)

NextUpdates == Update

SpecUpdates == Init /\ [][NextUpdates]_vars

-----------------------------------------------------------------------------
(* The engine driven directly as well: GP.update, the cached posterior       *)
(* operations, and calls whose x and y disagree in their point counts.       *)

\* GP.update(x, y), called on the engine itself.
GP_update_call(x, y) ==
    IF ~_validate(x, y)
    THEN /\ outcome' = "ValueError"
         /\ UNCHANGED <<data_vars, cache, episode>>
    ELSE /\ GP_update(x, y)
         /\ outcome' = "ok"
         /\ episode' = NoEpisode
         /\ UNCHANGED wsabi_vars

\* GP.posterior_mean_and_variance, posterior_jacobians, posterior_hessians.
posterior(slot, q) ==
    /\ last_value_cache(slot, q)
    /\ outcome' = "ok"
    /\ UNCHANGED <<data_vars, episode>>

EngineUpdate ==
    \E b \in EngineInputs :
        /\ update(b.x, b.y)
        /\ Len(gp_X') <= MaxPoints
        /\ UNCHANGED hess_vars

EngineFantasise ==
    \E b \in EngineInputs :
        /\ fantasise(b.x, b.y)
        /\ Len(gp_X') <= MaxPoints
        /\ UNCHANGED hess_vars

GPUpdate ==
    \E b \in EngineInputs :
        /\ GP_update_call(b.x, b.y)
        /\ Len(gp_X') <= MaxPoints
        /\ UNCHANGED hess_vars

Query == \E slot \in Slots, q \in Queries : posterior(slot, q) /\ UNCHANGED hess_vars

NextEngine == EngineUpdate \/ EngineFantasise \/ RemoveFantasies \/ GPUpdate \/ Query

SpecEngine == Init /\ [][NextEngine]_vars

-----------------------------------------------------------------------------
(* GP.posterior_hessians on arbitrary kernel tensors *)

\* Query points, training points and input dimensions of the tensors.
QIdx == {1}

TIdx == {1}

Dim == {1, 2}

Entries == 0 .. MaxEntry

\* What posterior_hessians reads: kernel_hessian (n, N, d, d), kernel_jacobian
\* (n, N, d), K_D_inv (N, N), K_star (n, N) and diagonal_hessian (n, d, d).
HessianInputs ==
    [kernel_hessian : [QIdx \X TIdx \X Dim \X Dim -> Entries],
     kernel_jacobian : [QIdx \X TIdx \X Dim -> Entries],
     K_D_inv : [TIdx \X TIdx -> Entries],
     K_star : [QIdx \X TIdx -> Entries],
     diagonal_hessian : [QIdx \X Dim \X Dim -> Entries]]

\* The sum of f over the finite set S.
RECURSIVE Sum(_, _)
Sum(f, S) ==
    IF S = {} THEN 0
    ELSE LET e == CHOOSE e \in S : TRUE IN f[e] + Sum(f, S \ {e})

\* np.einsum('iljk,lm,im->ijk', kernel_hessian, K_D_inv, K_star)
\*   + np.einsum('ilj,lm,imk->ijk', kernel_jacobian, K_D_inv, kernel_jacobian)
data_dependent_hessian_half(t) ==
    [e \in QIdx \X Dim \X Dim |->
        LET i == e[1]
            j == e[2]
            k == e[3]
        IN Sum([lm \in TIdx \X TIdx |->
                    t.kernel_hessian[<<i, lm[1], j, k>>] * t.K_D_inv[lm]
                        * t.K_star[<<i, lm[2]>>]], TIdx \X TIdx)
           + Sum([lm \in TIdx \X TIdx |->
                    t.kernel_jacobian[<<i, lm[1], j>>] * t.K_D_inv[lm]
                        * t.kernel_jacobian[<<i, lm[2], k>>]], TIdx \X TIdx)]

\* np.swapaxes(a, -1, -2)
swapaxes(a) == [e \in QIdx \X Dim \X Dim |-> a[<<e[1], e[3], e[2]>>]]

\* A data-dependent part that doubles the half instead of adding its transpose.
data_dependent_hessian_doubled(t) ==
    LET half == data_dependent_hessian_half(t)
    IN [e \in QIdx \X Dim \X Dim |-> half[e] + half[e]]

\* data_dependent_hessian_half + np.swapaxes(data_dependent_hessian_half, -1, -2)
data_dependent_hessian(t) ==
    LET half == data_dependent_hessian_half(t)
    IN [e \in QIdx \X Dim \X Dim |-> half[e] + swapaxes(half)[e]]

\* The variance hessian GP.posterior_hessians returns.
variance_hessian(t) ==
    LET Q == data_dependent_hessian(t)
    IN [e \in QIdx \X Dim \X Dim |-> t.diagonal_hessian[e] - Q[e]]

\* The state the hessians are queried in: a constructed model and the tensors
\* the kernel yields for the query.
InitHess ==
    /\ gp_X = <<1>>
    /\ gp_Y = <<10>>
    /\ alpha = Times08(PyMin(HalfSquare(gp_Y)))
    /\ true_alpha = alpha
    /\ unwarped_Y = <<HalfSquare(gp_Y)>>
    /\ all_X = <<gp_X>>
    /\ fantasy_X = <<>>
    /\ fantasy_Y = <<>>
    /\ cache = clear_last_value_caches
    /\ outcome = "ok"
    /\ episode = NoEpisode
    /\ hess_in \in HessianInputs
    /\ hess_out = {}

\* GP.posterior_hessians(x)
posterior_hessians ==
    /\ hess_out = {}
    /\ hess_out' = {variance_hessian(hess_in)}
    /\ UNCHANGED <<data_vars, cache, outcome, episode, hess_in>>

NextHess == posterior_hessians

SpecHess == InitHess /\ [][NextHess]_vars

-----------------------------------------------------------------------------
(* Properties *)

\* Every raw target of a list of batches, as one sequence.
RealTargets == Concat(unwarped_Y)

FantasyTargets == Concat(fantasy_Y)

\* The alpha __init__ derived from the model it was given.
InitialAlpha == Times08(PyMin(unwarped_Y[1]))

\* C1 (warp consistency): in every reachable state the model's X is the real
\* history followed by the fantasy history, and its Y is the warp of the stored
\* raw targets of those points under the current alpha.
WarpConsistency ==
    /\ gp_X = Concat(all_X \o fantasy_X)
    /\ gp_Y = Concat(WarpAll(unwarped_Y, alpha) \o WarpAll(fantasy_Y, alpha))

\* C2 (alpha bound): in every reachable state alpha is at most 0.8 times every
\* stored real raw target and at most 0.8 times every fantasy target.
AlphaBound ==
    /\ \A i \in DOMAIN RealTargets : alpha <= Times08(RealTargets[i])
    /\ \A i \in DOMAIN FantasyTargets : alpha <= Times08(FantasyTargets[i])

\* C3 (fantasy rollback): when remove_fantasies closes an episode of fantasise
\* calls that began with an empty fantasy history and saw no real update, alpha,
\* true_alpha, the real history and the model's (X, Y) are what they were before
\* the first fantasise call.
FantasyRollback == episode.status = "rolled" => Snapshot = episode.pre

\* C4 (alpha monotonicity): each real update leaves alpha and true_alpha
\* unchanged or strictly lowers both to the same value.
AlphaMonotone ==
    [][\/ alpha' = alpha /\ true_alpha' = true_alpha
       \/ alpha' < alpha /\ true_alpha' < true_alpha /\ alpha' = true_alpha']_vars

\* C4 witness: two updates have been made and alpha is below its initial value.
AlphaLowered == Len(all_X) = 3 /\ alpha < InitialAlpha

\* C5 (warp domain): no operation evaluates the warp at a raw target below the
\* alpha in force; every warp result is handed to the model by the operation
\* that computed it, so the model never holds the result of an out-of-domain
\* warp.
WarpDomain == \A i \in DOMAIN gp_Y : gp_Y[i] # NaN

\* C6 (atomic shape rejection): a call that ends with the shape-mismatch error
\* leaves the real history, the fantasy history, alpha, true_alpha and the
\* model's (X, Y) as they were.
AtomicRejection == [][outcome' = "ValueError" => UNCHANGED data_vars]_vars

\* C6 witness: a call was rejected in a state with real updates and fantasies.
RejectedCall == outcome = "ValueError" /\ Len(all_X) > 1 /\ fantasy_X # <<>>

\* C7 (cache invalidation): every step that changes the model's training data
\* leaves all three cache slots empty, and no slot ever holds a result computed
\* against training data other than the model's current data.
CacheInvalidation ==
    [][/\ <<gp_X, gp_Y>>' # <<gp_X, gp_Y>> => \A s \in Slots : cache'[s] = {}
       /\ \A s \in Slots : \A e \in cache'[s] : e.X = gp_X' /\ e.Y = gp_Y']_vars

\* C7 witness: every slot has been filled again after real and fantasy data
\* were added.
CacheRefilled ==
    /\ Len(all_X) > 1
    /\ fantasy_X # <<>>
    /\ \A s \in Slots : cache[s] # {}

Transposed(e) == <<e[1], e[3], e[2]>>

Symmetric(a) == \A e \in QIdx \X Dim \X Dim : a[e] = a[Transposed(e)]

\* C8 (hessian symmetry): the data-dependent part of the variance hessian,
\* diagonal_hessian - variance_hessian, is symmetric in its last two axes for
\* any tensors, and the variance hessian is symmetric whenever the diagonal
\* hessian is.
HessianSymmetry ==
    \A V \in hess_out :
        /\ Symmetric([e \in QIdx \X Dim \X Dim |-> hess_in.diagonal_hessian[e] - V[e]])
        /\ Symmetric(hess_in.diagonal_hessian) => Symmetric(V)

\* C8 witness: the hessian was computed from an asymmetric kernel hessian and a
\* symmetric diagonal hessian, and is not zero off the diagonal.
AsymmetricKernelHessian ==
    \E V \in hess_out :
        /\ hess_in.kernel_hessian[<<1, 1, 1, 2>>] # hess_in.kernel_hessian[<<1, 1, 2, 1>>]
        /\ hess_in.K_D_inv[<<1, 1>>] # 0
        /\ hess_in.K_star[<<1, 1>>] # 0
        /\ Symmetric(hess_in.diagonal_hessian)
        /\ V[<<1, 1, 2>>] # 0

\* The targets passed to update so far.
UpdateTargets == Concat(Tail(unwarped_Y))

\* C9 (true_alpha tracks real data only): in every reachable state true_alpha
\* is the minimum of the initial alpha and 0.8 times every y passed to update.
TrueAlphaTracksReal ==
    true_alpha = PyMin(MinArgs(InitialAlpha, UpdateTargets))

\* C10 (update branch selection): an update step, which is the step that
\* appends a batch (x, y) to the real history, sets alpha and true_alpha to
\* candidate = min(alpha, 0.8 * min(y)) and replaces the model's data by the
\* whole real history warped under it if and only if candidate < alpha;
\* otherwise it leaves alpha and true_alpha alone and appends the batch,
\* warped under the existing alpha, to the model's data.
UpdateBranch ==
    [][Len(all_X') = Len(all_X) + 1 =>
        LET x == all_X'[Len(all_X')]
            y == unwarped_Y'[Len(unwarped_Y')]
            candidate == PyMin(MinArgs(alpha, y))
        IN IF candidate < alpha
           THEN /\ alpha' = candidate
                /\ true_alpha' = candidate
                /\ gp_X' = Concat(all_X')
                /\ gp_Y' = Concat(WarpAll(unwarped_Y', candidate))
           ELSE /\ alpha' = alpha
                /\ true_alpha' = true_alpha
                /\ gp_X' = gp_X \o x
                /\ gp_Y' = gp_Y \o _warp(y, alpha)]_vars

\* C10 witness: one update whose candidate equalled alpha was appended
\* incrementally: the model's data is not the re-warped real history.
TieAppended ==
    /\ Len(all_X) = 2
    /\ fantasy_X = <<>>
    /\ alpha = InitialAlpha
    /\ Times08(PyMin(unwarped_Y[2])) = alpha
    /\ gp_X = Concat(all_X)
    /\ gp_Y # Concat(WarpAll(unwarped_Y, alpha))

\* C11 (post-condition of remove_fantasies): a remove_fantasies step, which is
\* the step that grows neither history, leaves the fantasy history empty, alpha
\* equal to true_alpha, the real history and true_alpha unchanged, the model's X
\* the concatenated real history and its Y the warp of the real raw targets
\* under that alpha.
RemoveFantasiesPost ==
    [][Len(all_X') = Len(all_X) /\ Len(fantasy_X') <= Len(fantasy_X) =>
        /\ fantasy_X' = <<>>
        /\ fantasy_Y' = <<>>
        /\ alpha' = true_alpha'
        /\ true_alpha' = true_alpha
        /\ all_X' = all_X
        /\ unwarped_Y' = unwarped_Y
        /\ gp_X' = Concat(all_X)
        /\ gp_Y' = Concat(WarpAll(unwarped_Y, alpha'))]_vars

\* C11 witness: fantasies were removed after a real update made while they were
\* present; the restored alpha lies above a real target, whose warp is NaN.
RemovedAfterMixedUpdate ==
    /\ fantasy_X = <<>>
    /\ Len(all_X) > 1
    /\ alpha = true_alpha
    /\ gp_X = Concat(all_X)
    /\ \E i \in DOMAIN gp_Y : gp_Y[i] = NaN

\* C12 (frame of fantasise): a fantasise step, which is the step that grows
\* the fantasy history, leaves true_alpha and the real history (x batches and
\* raw targets) as they were and appends exactly one batch to the fantasy
\* history, whether or not it lowers alpha.
FantasiseFrame ==
    [][Len(fantasy_X') > Len(fantasy_X) =>
        /\ true_alpha' = true_alpha
        /\ all_X' = all_X
        /\ unwarped_Y' = unwarped_Y
        /\ Len(fantasy_X') = Len(fantasy_X) + 1
        /\ Len(fantasy_Y') = Len(fantasy_Y) + 1
        /\ SubSeq(fantasy_X', 1, Len(fantasy_X)) = fantasy_X
        /\ SubSeq(fantasy_Y', 1, Len(fantasy_Y)) = fantasy_Y]_vars

\* C12 witness: two fantasise calls were made on top of a real update, one of
\* them lowering alpha (wholesale reprocessing) and the later one appended
\* incrementally, so that the model holds every stored point.
FantasisedBothWays ==
    /\ Len(all_X) = 2
    /\ Len(fantasy_X) = 2
    /\ alpha < true_alpha
    /\ alpha = Times08(PyMin(fantasy_Y[1]))
    /\ Len(gp_X) = Len(Concat(all_X \o fantasy_X))

\* C13 (alpha never above true_alpha): in every reachable state alpha is at
\* most true_alpha, and equals it whenever the fantasy history is empty.
AlphaBelowTrueAlpha ==
    /\ alpha <= true_alpha
    /\ fantasy_X = <<>> => alpha = true_alpha

\* C13 witness: a fantasy holds alpha strictly below true_alpha after real
\* updates lowered both.
FantasyHoldsAlphaDown ==
    /\ fantasy_X # <<>>
    /\ alpha < true_alpha
    /\ true_alpha < InitialAlpha

====
